---- MODULE Spec2Model ----
(***************************************************************************)
(* A model of the Google Pay codelab storefront (src/index.js).            *)
(*                                                                         *)
(* src/index.js holds three successive versions of the page script.  The   *)
(* first one (lines 1-395, "shop") is the t-shirt shop with its hash       *)
(* navigation and a Google Pay button; the second one (lines 397-638,      *)
(* "pay") is the Google Pay integration with the shipping callbacks and    *)
(* the mock processor; the third one (lines 640-741) is the empty          *)
(* skeleton of the second and has no behaviour.  A page loads one script:  *)
(* the variable `variant` says which.                                      *)
(*                                                                         *)
(* JavaScript numbers that are amounts of money are modelled in thousandths*)
(* of a dollar ("mills"), the strings toFixed(2) produces in hundredths    *)
(* ("cents").  The payments SDK, the browser and the user are the          *)
(* environment: they resolve promises, deliver callbacks, fire events.     *)
(***************************************************************************)
EXTENDS Integers, Sequences, FiniteSets, TLC

VARIABLES
    variant,                     \* 1: the shop script, 2: the pay script
    googlePayClient,             \* "undefined" | "created"
    readiness,                   \* the isReadyToPay promise
    button,                      \* #google-pay-button is in the DOM
    alerts,                      \* the alert() messages shown, in order
    clicks,                      \* runs of onGooglePaymentsButtonClicked
    sheet,                       \* index in attempts of the open sheet, or 0
    attempts,                    \* one record per loadPaymentData call
    googlePayBaseConfiguration,  \* the (mutable) base configuration object
    loadedRequest,               \* the request of the last loadPaymentData call
    shippingOptionParameters,    \* ids of shippingOptionParameters.shippingOptions
    shippingSurcharges,          \* the surcharge table, in mills
    lastDataChanged,             \* last onPaymentDataChanged call and outcome
    hash,                        \* window.location.hash
    hashEvents,                  \* hashchange events queued, not yet dispatched
    uiInitialized,               \* initializeUi has run
    display,                     \* style.display of the three views
    checkoutClassName,           \* className of #shop-checkout
    GLOBAL_RAM_CACHE,            \* url -> list of shirts, or <<>> when absent
    fetches,                     \* url -> number of fetches in flight
    selectedShirt,               \* the selected shirt, or NoShirt
    lastDirectory                \* shirtUrl of the last loadShirtDirectory call

vars == <<variant, googlePayClient, readiness, button, alerts, clicks, sheet,
          attempts, googlePayBaseConfiguration, loadedRequest,
          shippingOptionParameters,
          shippingSurcharges, lastDataChanged, hash, hashEvents, uiInitialized,
          display, checkoutClassName, GLOBAL_RAM_CACHE, fetches,
          selectedShirt, lastDirectory>>

payVars == <<googlePayClient, readiness, button, alerts, clicks, sheet,
             attempts, googlePayBaseConfiguration, loadedRequest,
             lastDataChanged>>

tableVars == <<shippingOptionParameters, shippingSurcharges>>

shopVars == <<hash, hashEvents, uiInitialized, display,
              checkoutClassName, GLOBAL_RAM_CACHE, fetches, selectedShirt,
              lastDirectory>>

----------------------------------------------------------------------------
(* Bounds of the model. *)

\* The user clicks the Google Pay button at most MaxClicks times.
MaxClicks == 2

\* At most MaxHashEvents navigations are queued at once by the user.
MaxHashEvents == 1

\* At most MaxFetches directory fetches are in flight at once.
MaxFetches == 1

----------------------------------------------------------------------------
(* JavaScript values. *)

Num(n) == [t |-> "number", v |-> n]

NaN == [t |-> "NaN", v |-> 0]

Undefined == [t |-> "undefined", v |-> 0]

\* a + b on numbers; a number plus undefined is NaN.
Plus(a, b) ==
    IF a.t = "number" /\ b.t = "number" THEN Num(a.v + b.v) ELSE NaN

\* The string of a price with two decimals, as its number of cents.
Str(c) == [nan |-> FALSE, cents |-> c]

StrNaN == [nan |-> TRUE, cents |-> 0]

\* Number.prototype.toFixed(2) of a finite number given in mills: the cents
\* n for which n/100 is nearest, the larger n when two are as near; a
\* negative number is formatted as minus the format of its opposite.
RoundHalfUp(m) ==
    IF m >= 0 THEN (m + 5) \div 10 ELSE 0 - ((5 - m) \div 10)

toFixed2(x) ==
    IF x.t = "number" THEN Str(RoundHalfUp(x.v)) ELSE StrNaN

\* x.toFixed throws a TypeError when x is undefined: undefined has no
\* properties.  NaN is a number and has the method.
toFixedThrows(x) == x.t = "undefined"

----------------------------------------------------------------------------
(* The static tables of the pay script. *)

\* shippingOptionParameters.shippingOptions: the ids offered to the sheet.
ShippingOptionIds == {"shipping-001", "shipping-002", "shipping-003"}

\* A table that lacks the entry of the third option.
ShippingSurchargeTable_TwoEntries ==
    [id \in {"shipping-001", "shipping-002"} |->
        IF id = "shipping-001" THEN 1990 ELSE 3990]

\* shippingSurcharges, in mills: 1.99, 3.99 and 10 dollars.
ShippingSurchargeTable ==
    [id \in {"shipping-001", "shipping-002", "shipping-003"} |->
        CASE id = "shipping-001" -> 1990
          [] id = "shipping-002" -> 3990
          [] OTHER -> 10000]

\* The literal 123.45 of paymentDataCallback, in mills.
BasePrice == 123450

\* The literal "123.45" of transactionInfo.totalPrice, in cents.
TransactionTotalPrice == 12345

\* The delay of the mock processor's setTimeout, in milliseconds.
ProcessorDelay == 800

\* What the sheet may name as the selected option: an offered id, or the
\* SDK's placeholder for "nothing selected yet", which is in no table.
PayloadIds == ShippingOptionIds \cup {"shipping_option_unselected"}

\* The callback payloads the SDK delivers: with shippingOptionData.id, or
\* without shippingOptionData at all.
Payloads ==
    [hasShippingOptionData : {TRUE}, id : PayloadIds]
    \cup {[hasShippingOptionData |-> FALSE, id |-> "absent"]}

----------------------------------------------------------------------------
(* paymentDataCallback, a function of the payload and the surcharge table. *)

Throw(e) ==
    [kind |-> "throw", error |-> e, totalPriceStatus |-> "absent",
     totalPrice |-> StrNaN, displayItems |-> <<>>]

Return(status, total, items) ==
    [kind |-> "return", error |-> "none", totalPriceStatus |-> status,
     totalPrice |-> total, displayItems |-> items]

\* A lookup that falls back to no surcharge for a missing key.
surchargeOf_OrZero(id) ==
    IF id \in DOMAIN shippingSurcharges
    THEN Num(shippingSurcharges[id])
    ELSE Num(0)

\* shippingSurcharges[selectedShippingOptionId]: undefined for a missing key.
surchargeOf(id) ==
    IF id \in DOMAIN shippingSurcharges
    THEN Num(shippingSurcharges[id])
    ELSE Undefined

\* A total that leaves the surcharge out.
priceWithSurcharges_NoSurcharge(shippingSurcharge) ==
    IF shippingSurcharge.t = "number" THEN Num(BasePrice) ELSE NaN

\* const priceWithSurcharges = 123.45 + shippingSurcharge
priceWithSurcharges(shippingSurcharge) ==
    Plus(Num(BasePrice), shippingSurcharge)

\* A breakdown whose shipping item repeats the total.
displayItems_ShippingIsTotal(price, shippingSurcharge) ==
    << [label |-> "Subtotal", type |-> "SUBTOTAL",
        price |-> toFixed2(price), status |-> "absent"],
       [label |-> "Shipping", type |-> "LINE_ITEM",
        price |-> toFixed2(price), status |-> "FINAL"] >>

\* The displayItems array literal.  The first item has no status property:
\* status "absent" stands for the missing property.  The caller has checked
\* that shippingSurcharge is a number, so its toFixed does not throw.
displayItems(price, shippingSurcharge) ==
    << [label |-> "Subtotal", type |-> "SUBTOTAL",
        price |-> toFixed2(price), status |-> "absent"],
       [label |-> "Shipping", type |-> "LINE_ITEM",
        price |-> toFixed2(shippingSurcharge), status |-> "FINAL"] >>

\* The object literal is evaluated in source order: NaN.toFixed(2) is the
\* string "NaN", and then undefined.toFixed throws a TypeError, so no object
\* is returned for a missing key.  Reading .id of a missing shippingOptionData
\* throws a TypeError too.
paymentDataCallback(callbackPayload) ==
    IF ~callbackPayload.hasShippingOptionData
    THEN Throw("TypeError")
    ELSE LET shippingSurcharge == surchargeOf(callbackPayload.id)
             price == priceWithSurcharges(shippingSurcharge)
         IN  IF toFixedThrows(price) \/ toFixedThrows(shippingSurcharge)
             THEN Throw("TypeError")
             ELSE Return("FINAL", toFixed2(price),
                         displayItems(price, shippingSurcharge))

\* onPaymentAuthorized: paymentData => console.log(paymentData), whose value
\* is undefined.
onPaymentAuthorized(paymentData) == Undefined

\* The transactionState a reply carries.
TransactionStateOf(reply) ==
    IF reply.t = "object" THEN reply.v ELSE "absent"

----------------------------------------------------------------------------
(* The state after the script has been evaluated. *)

NoAttempts == <<>>

NoDataChanged ==
    [called |-> FALSE,
     payload |-> [hasShippingOptionData |-> FALSE, id |-> "absent"],
     outcome |-> Throw("none")]

\* googlePayBaseConfiguration as the script defines it.  The shop script
\* lists the card method with its tokenization, the pay script the base card
\* method.
BaseConfiguration(v) ==
    [allowedPaymentMethods |->
         IF v = 1 THEN "cardPaymentMethod" ELSE "baseCardPaymentMethod",
     transactionInfo |-> StrNaN,
     hasTransactionInfo |-> FALSE,
     shippingOptions |-> {},
     callbackIntents |-> {}]

\* No request has been handed to the SDK yet.
NoRequest ==
    [allowedPaymentMethods |-> "none",
     transactionInfo |-> StrNaN,
     hasTransactionInfo |-> FALSE,
     shippingOptions |-> {},
     callbackIntents |-> {}]

InitPayVars(v) ==
    /\ variant = v
    /\ googlePayClient = "undefined"
    /\ readiness = "none"
    /\ button = FALSE
    /\ alerts = <<>>
    /\ clicks = 0
    /\ sheet = 0
    /\ attempts = NoAttempts
    /\ googlePayBaseConfiguration = BaseConfiguration(v)
    /\ loadedRequest = NoRequest
    /\ shippingOptionParameters = ShippingOptionIds
    /\ shippingSurcharges = ShippingSurchargeTable
    /\ lastDataChanged = NoDataChanged

----------------------------------------------------------------------------
(* The pay script: readiness check, button, sheet, mock processor. *)

\* createAndAddButton: the button is appended under #buy-now.
createAndAddButton == button' = TRUE

\* onGooglePayLoaded: creates the client with the two callbacks and calls
\* isReadyToPay.  The SDK's script tag calls it once.
onGooglePayLoaded ==
    /\ variant = 2
    /\ googlePayClient = "undefined"
    /\ googlePayClient' = "created"
    /\ readiness' = "pending"
    /\ UNCHANGED <<variant, button, alerts, clicks, sheet, attempts,
                   googlePayBaseConfiguration,
                   loadedRequest, lastDataChanged>>
    /\ UNCHANGED tableVars
    /\ UNCHANGED shopVars

\* The .then of isReadyToPay: the button on an affirmative result, else
\* alert("Unable to pay with GPay").
isReadyToPayThen(result) ==
    /\ variant = 2
    /\ readiness = "pending"
    /\ IF result
       THEN /\ createAndAddButton
            /\ readiness' = "true"
            /\ UNCHANGED alerts
       ELSE /\ alerts' = Append(alerts, "Unable to pay with GPay")
            /\ readiness' = "false"
            /\ UNCHANGED button
    /\ UNCHANGED <<variant, googlePayClient, clicks, sheet, attempts,
                   googlePayBaseConfiguration,
                   loadedRequest, lastDataChanged>>
    /\ UNCHANGED tableVars
    /\ UNCHANGED shopVars

\* The .catch of isReadyToPay: console.log(e).
isReadyToPayCatch ==
    /\ variant = 2
    /\ readiness = "pending"
    /\ readiness' = "rejected"
    /\ UNCHANGED <<variant, googlePayClient, button, alerts, clicks, sheet,
                   attempts, googlePayBaseConfiguration,
                   loadedRequest, lastDataChanged>>
    /\ UNCHANGED tableVars
    /\ UNCHANGED shopVars

\* The request handed to loadPaymentData.  Object.assign writes into
\* googlePayBaseConfiguration itself, so the request is that object.
paymentDataRequest ==
    [allowedPaymentMethods |-> "cardPaymentMethod",
     transactionInfo |-> Str(TransactionTotalPrice),
     hasTransactionInfo |-> TRUE,
     shippingOptions |-> shippingOptionParameters,
     callbackIntents |->
         {"SHIPPING_OPTION", "SHIPPING_ADDRESS", "PAYMENT_AUTHORIZATION"}]

\* The record of a loadPaymentData call: how its promise settled, the calls
\* of processPayment made for it, the timer of processPayment (-1: none,
\* else the milliseconds left), whether processPayment's promise resolved,
\* and the answer given to the call's authorization event.
NewAttempt ==
    [status |-> "open", processCalls |-> 0,
     timer |-> 0 - 1, done |-> FALSE, authorized |-> FALSE,
     authReply |-> Undefined]

\* onGooglePaymentsButtonClicked: builds the request and opens the sheet.
\* The sheet is modal: the button under it takes no click while it is open.
onGooglePaymentsButtonClicked ==
    /\ variant = 2
    /\ button
    /\ sheet = 0
    /\ clicks < MaxClicks
    /\ clicks' = clicks + 1
    /\ googlePayBaseConfiguration' = paymentDataRequest
    /\ loadedRequest' = paymentDataRequest
    /\ attempts' = Append(attempts, NewAttempt)
    /\ sheet' = Len(attempts) + 1
    /\ UNCHANGED <<variant, googlePayClient, readiness, button, alerts,
                   lastDataChanged>>
    /\ UNCHANGED tableVars
    /\ UNCHANGED shopVars

\* The SDK calls onPaymentDataChanged (paymentDataCallback) while the sheet
\* is open, one call at a time.
onPaymentDataChanged(callbackPayload) ==
    /\ variant = 2
    /\ sheet # 0
    /\ lastDataChanged' =
           [called |-> TRUE, payload |-> callbackPayload,
            outcome |-> paymentDataCallback(callbackPayload)]
    /\ UNCHANGED <<variant, googlePayClient, readiness, button, alerts,
                   clicks, sheet, attempts, googlePayBaseConfiguration,
                   loadedRequest>>
    /\ UNCHANGED tableVars
    /\ UNCHANGED shopVars

\* The SDK calls onPaymentAuthorized at most once per sheet and takes what
\* the hook returns as its answer.
PaymentAuthorized ==
    /\ variant = 2
    /\ sheet # 0
    /\ ~attempts[sheet].authorized
    /\ attempts' = [attempts EXCEPT ![sheet].authorized = TRUE,
                                    ![sheet].authReply =
                                        onPaymentAuthorized("paymentData")]
    /\ UNCHANGED <<variant, googlePayClient, readiness, button, alerts,
                   clicks, sheet, googlePayBaseConfiguration,
                   loadedRequest, lastDataChanged>>
    /\ UNCHANGED tableVars
    /\ UNCHANGED shopVars

\* A processPayment that never sets its timer.
processPayment_NoTimeout(a, atts) ==
    [atts EXCEPT ![a].processCalls = atts[a].processCalls + 1]

\* processPayment: logs, and sets the 800 ms timer whose callback resolves
\* the promise.  The payment data of a resolved loadPaymentData carries the
\* token the executor reads.
processPayment(a, atts) ==
    [atts EXCEPT ![a].processCalls = atts[a].processCalls + 1,
                 ![a].timer = ProcessorDelay]

\* The .then of loadPaymentData: processPayment(paymentData).
loadPaymentDataThen ==
    /\ variant = 2
    /\ sheet # 0
    /\ attempts' = processPayment(sheet,
                       [attempts EXCEPT ![sheet].status = "resolved"])
    /\ sheet' = 0
    /\ UNCHANGED <<variant, googlePayClient, readiness, button, alerts,
                   clicks, googlePayBaseConfiguration,
                   loadedRequest, lastDataChanged>>
    /\ UNCHANGED tableVars
    /\ UNCHANGED shopVars

\* A handler that hands the rejection to processPayment as well.
loadPaymentDataCatch_Processes(statusCode) ==
    /\ variant = 2
    /\ sheet # 0
    /\ attempts' = processPayment(sheet,
                       [attempts EXCEPT ![sheet].status = statusCode])
    /\ sheet' = 0
    /\ UNCHANGED <<variant, googlePayClient, readiness, button, alerts,
                   clicks, googlePayBaseConfiguration, loadedRequest,
                   lastDataChanged>>
    /\ UNCHANGED tableVars
    /\ UNCHANGED shopVars

\* A handler that calls loadPaymentData again after a rejection.
loadPaymentDataCatch_Retries(statusCode) ==
    /\ variant = 2
    /\ sheet # 0
    /\ attempts' = Append([attempts EXCEPT ![sheet].status = statusCode],
                          NewAttempt)
    /\ sheet' = Len(attempts) + 1
    /\ UNCHANGED <<variant, googlePayClient, readiness, button, alerts,
                   clicks, googlePayBaseConfiguration,
                   loadedRequest, lastDataChanged>>
    /\ UNCHANGED tableVars
    /\ UNCHANGED shopVars

\* The .catch of loadPaymentData: an empty handler.
loadPaymentDataCatch(statusCode) ==
    /\ variant = 2
    /\ sheet # 0
    /\ attempts' = [attempts EXCEPT ![sheet].status = statusCode]
    /\ sheet' = 0
    /\ UNCHANGED <<variant, googlePayClient, readiness, button, alerts,
                   clicks, googlePayBaseConfiguration,
                   loadedRequest, lastDataChanged>>
    /\ UNCHANGED tableVars
    /\ UNCHANGED shopVars

\* Time passes: every running timer gets d ms nearer to its end.
Tick(d) ==
    /\ variant = 2
    /\ \E a \in 1..Len(attempts) : attempts[a].timer > 0
    /\ attempts' = [a \in 1..Len(attempts) |->
                      IF attempts[a].timer > 0
                      THEN [attempts[a] EXCEPT
                               !.timer = IF @ > d THEN @ - d ELSE 0]
                      ELSE attempts[a]]
    /\ UNCHANGED <<variant, googlePayClient, readiness, button, alerts,
                   clicks, sheet, googlePayBaseConfiguration,
                   loadedRequest, lastDataChanged>>
    /\ UNCHANGED tableVars
    /\ UNCHANGED shopVars

\* The setTimeout callback of processPayment: alert("done"); resolve({}).
processPaymentTimeout(a) ==
    /\ variant = 2
    /\ a \in 1..Len(attempts)
    /\ attempts[a].timer = 0
    /\ ~attempts[a].done
    /\ alerts' = Append(alerts, "done")
    /\ attempts' = [attempts EXCEPT ![a].done = TRUE]
    /\ UNCHANGED <<variant, googlePayClient, readiness, button,
                   clicks, sheet, googlePayBaseConfiguration,
                   loadedRequest, lastDataChanged>>
    /\ UNCHANGED tableVars
    /\ UNCHANGED shopVars

NextPay ==
    \/ onGooglePayLoaded
    \/ \E result \in BOOLEAN : isReadyToPayThen(result)
    \/ isReadyToPayCatch
    \/ onGooglePaymentsButtonClicked
    \/ \E callbackPayload \in Payloads : onPaymentDataChanged(callbackPayload)
    \/ PaymentAuthorized
    \/ loadPaymentDataThen
    \/ \E statusCode \in {"CANCELED", "DEVELOPER_ERROR"} :
           loadPaymentDataCatch(statusCode)
    \/ \E d \in {ProcessorDelay \div 2, ProcessorDelay} : Tick(d)
    \/ \E a \in 1..MaxClicks : processPaymentTimeout(a)

----------------------------------------------------------------------------
(* The shop script: directories, views, hash navigation. *)

\* SHIRT_OPTIONS: index 0 the ladies' directory, index 1 the men's (0-based
\* in the source, 1-based here).
SHIRT_OPTIONS == <<"./data/ladies_tshirts.json", "./data/mens_tshirts.json">>

Urls == {SHIRT_OPTIONS[i] : i \in 1..Len(SHIRT_OPTIONS)}

\* What the server holds at each url: the lists of the data files, which are
\* not empty.  Prices are in cents.
Directory(url) ==
    IF url = SHIRT_OPTIONS[1]
    THEN << [title |-> "ladies-1", price |-> 1500],
            [title |-> "ladies-2", price |-> 2250] >>
    ELSE << [title |-> "mens-1", price |-> 1800] >>

NoShirt == [title |-> "undefined", price |-> 0]

\* The hashes of the page's links, and "#other" for every other hash, the
\* empty one included: the switch of loadTshirtForHash treats every other
\* hash alike.
Hashes == {"#other", "#shop-tshirt-any", "#shop-tshirt-male",
           "#shop-tshirt-female", "#shop-checkout", "#shop-success"}

Views == {"shop-tshirt", "shop-checkout", "shop-success"}

\* The elements whose style.display is modelled.  The script also shows
\* #loading and #shop-image while a shirt's image loads; no view depends on
\* them and they are left out.
Elements == Views

InitShopVars ==
    /\ hash \in Hashes
    /\ hashEvents = 0
    /\ uiInitialized = FALSE
    /\ display = [e \in Elements |-> ""]
    /\ checkoutClassName = ""
    /\ GLOBAL_RAM_CACHE = [u \in Urls |-> <<>>]
    /\ fetches = [u \in Urls |-> 0]
    /\ selectedShirt = NoShirt
    /\ lastDirectory = "none"

\* The shop variables of a page that loads the pay script: the script has no
\* navigation, and nothing changes them.
IdleShopVars ==
    /\ hash = "#other"
    /\ hashEvents = 0
    /\ uiInitialized = FALSE
    /\ display = [e \in Elements |-> ""]
    /\ checkoutClassName = ""
    /\ GLOBAL_RAM_CACHE = [u \in Urls |-> <<>>]
    /\ fetches = [u \in Urls |-> 0]
    /\ selectedShirt = NoShirt
    /\ lastDirectory = "none"

\* updateModalVisilibity: 'flex' for the elements to show, then 'none' for
\* the elements to hide.
updateModalVisilibity(elementsToShow, elementsToHide, d) ==
    [e \in Elements |->
        IF e \in elementsToHide THEN "none"
        ELSE IF e \in elementsToShow THEN "flex"
        ELSE d[e]]

InFlight == fetches[SHIRT_OPTIONS[1]] + fetches[SHIRT_OPTIONS[2]]

\* randomlySelectShirtAndAssign: a shirt of the list at a random index
\* becomes selectedShirt, and renderShirt writes it to the product view.
randomlySelectShirtAndAssign(list) ==
    \E shirtIndex \in 1..Len(list) : selectedShirt' = list[shirtIndex]

\* loadShirtDirectory: picks the directory (at random unless the gender
\* names it), and selects from the cache or starts a fetch.
loadShirtDirectory(gender) ==
    \E maleFemaleIndex \in
          IF gender = "female" THEN {1}
          ELSE IF gender = "male" THEN {2}
          ELSE {1, 2} :
       LET shirtUrl == SHIRT_OPTIONS[maleFemaleIndex]
       IN  /\ lastDirectory' = shirtUrl
           /\ IF GLOBAL_RAM_CACHE[shirtUrl] # <<>>
              THEN /\ randomlySelectShirtAndAssign(GLOBAL_RAM_CACHE[shirtUrl])
                   /\ UNCHANGED <<GLOBAL_RAM_CACHE, fetches>>
              ELSE /\ InFlight < MaxFetches
                   /\ fetches' = [fetches EXCEPT ![shirtUrl] = @ + 1]
                   /\ UNCHANGED <<GLOBAL_RAM_CACHE, selectedShirt>>

\* uiPageShirt: loads a shirt, then shows the product view.
uiPageShirt(gender) ==
    /\ loadShirtDirectory(gender)
    /\ display' = updateModalVisilibity(
                      {"shop-tshirt"}, {"shop-checkout", "shop-success"},
                      display)
    /\ UNCHANGED checkoutClassName

\* uiPageLegacyCheckoutForm: shows the checkout view and, the first time,
\* marks it and appends the stylesheet link.
uiPageLegacyCheckoutForm ==
    /\ display' = updateModalVisilibity(
                      {"shop-checkout"}, {"shop-tshirt", "shop-success"},
                      display)
    /\ checkoutClassName' =
           IF checkoutClassName = "" THEN "fa-loaded" ELSE checkoutClassName
    /\ UNCHANGED <<GLOBAL_RAM_CACHE, fetches, selectedShirt, lastDirectory>>

\* A success page that leaves the checkout view as it is.
uiPagePurchaseSuccess_KeepsCheckout ==
    /\ display' = updateModalVisilibity(
                      {"shop-success"}, {"shop-tshirt"}, display)
    /\ UNCHANGED <<checkoutClassName, GLOBAL_RAM_CACHE, fetches,
                   selectedShirt, lastDirectory>>

\* uiPagePurchaseSuccess: shows the success view.
uiPagePurchaseSuccess ==
    /\ display' = updateModalVisilibity(
                      {"shop-success"}, {"shop-tshirt", "shop-checkout"},
                      display)
    /\ UNCHANGED <<checkoutClassName, GLOBAL_RAM_CACHE, fetches,
                   selectedShirt, lastDirectory>>

\* loadTshirtForHash: the switch on the hash.
loadTshirtForHash(h) ==
    CASE h = "#shop-checkout" -> uiPageLegacyCheckoutForm
      [] h = "#shop-success" -> uiPagePurchaseSuccess
      [] h = "#shop-tshirt-male" -> uiPageShirt("male")
      [] h = "#shop-tshirt-female" -> uiPageShirt("female")
      [] OTHER -> uiPageShirt("any")

\* handleHashChange: loads the view of the hash.  It also marks the nav
\* element of the hash 'active', a className that nothing reads and that is
\* left out.
handleHashChange == loadTshirtForHash(hash)

\* initializeUi, on DOMContentLoaded: registers the hashchange listener and
\* the reload button's onclick, and handles the current hash.
initializeUi ==
    /\ variant = 1
    /\ ~uiInitialized
    /\ uiInitialized' = TRUE
    /\ handleHashChange
    /\ UNCHANGED <<hash, hashEvents>>
    /\ UNCHANGED <<variant, payVars, tableVars>>

\* The user follows a link or edits the address: the hash changes and the
\* browser queues a hashchange event.
Navigate(h) ==
    /\ variant = 1
    /\ h # hash
    /\ hashEvents < MaxHashEvents
    /\ hash' = h
    /\ hashEvents' = hashEvents + 1
    /\ UNCHANGED <<uiInitialized, display, checkoutClassName,
                   GLOBAL_RAM_CACHE, fetches, selectedShirt, lastDirectory>>
    /\ UNCHANGED <<variant, payVars, tableVars>>

\* The browser dispatches a queued hashchange event to the listener
\* initializeUi registered; without a listener the event is dropped.
hashchange ==
    /\ variant = 1
    /\ hashEvents > 0
    /\ hashEvents' = hashEvents - 1
    /\ IF uiInitialized
       THEN handleHashChange
       ELSE UNCHANGED <<display, checkoutClassName,
                        GLOBAL_RAM_CACHE, fetches, selectedShirt,
                        lastDirectory>>
    /\ UNCHANGED <<hash, uiInitialized>>
    /\ UNCHANGED <<variant, payVars, tableVars>>

\* The onclick of #reload-button: loadTshirtForHash(window.location.hash).
reloadButtonClick ==
    /\ variant = 1
    /\ uiInitialized
    /\ loadTshirtForHash(hash)
    /\ UNCHANGED <<hash, hashEvents, uiInitialized>>
    /\ UNCHANGED <<variant, payVars, tableVars>>

\* A handler that stashes the list under the key of the other directory.
fetchThen_OtherKey(shirtUrl) ==
    /\ variant = 1
    /\ fetches[shirtUrl] > 0
    /\ fetches' = [fetches EXCEPT ![shirtUrl] = @ - 1]
    /\ GLOBAL_RAM_CACHE' =
           [u \in Urls |-> IF u = shirtUrl THEN GLOBAL_RAM_CACHE[u]
                           ELSE Directory(shirtUrl)]
    /\ randomlySelectShirtAndAssign(Directory(shirtUrl))
    /\ UNCHANGED <<hash, hashEvents, uiInitialized, display,
                   checkoutClassName, lastDirectory>>
    /\ UNCHANGED <<variant, payVars, tableVars>>

\* The second .then of fetch(shirtUrl): the list is stashed and a shirt of
\* it selected.
fetchThen(shirtUrl) ==
    /\ variant = 1
    /\ fetches[shirtUrl] > 0
    /\ fetches' = [fetches EXCEPT ![shirtUrl] = @ - 1]
    /\ GLOBAL_RAM_CACHE' =
           [GLOBAL_RAM_CACHE EXCEPT ![shirtUrl] = Directory(shirtUrl)]
    /\ randomlySelectShirtAndAssign(Directory(shirtUrl))
    /\ UNCHANGED <<hash, hashEvents, uiInitialized, display,
                   checkoutClassName, lastDirectory>>
    /\ UNCHANGED <<variant, payVars, tableVars>>

\* The fetch fails: the chain has no catch, nothing happens.
fetchRejected(shirtUrl) ==
    /\ variant = 1
    /\ fetches[shirtUrl] > 0
    /\ fetches' = [fetches EXCEPT ![shirtUrl] = @ - 1]
    /\ UNCHANGED <<hash, hashEvents, uiInitialized, display,
                   checkoutClassName, GLOBAL_RAM_CACHE, selectedShirt,
                   lastDirectory>>
    /\ UNCHANGED <<variant, payVars, tableVars>>

----------------------------------------------------------------------------
(* The shop script's Google Pay button (lines 77-150). *)

\* onGooglePayLoaded of the shop script: a client without callbacks, and
\* isReadyToPay.
Shop_onGooglePayLoaded ==
    /\ variant = 1
    /\ googlePayClient = "undefined"
    /\ googlePayClient' = "created"
    /\ readiness' = "pending"
    /\ UNCHANGED <<variant, button, alerts, clicks, sheet, attempts,
                   googlePayBaseConfiguration,
                   loadedRequest, lastDataChanged>>
    /\ UNCHANGED tableVars
    /\ UNCHANGED shopVars

\* The .then of isReadyToPay: the button on an affirmative result; there is
\* no else branch.
Shop_isReadyToPayThen(result) ==
    /\ variant = 1
    /\ readiness = "pending"
    /\ IF result
       THEN /\ createAndAddButton
            /\ readiness' = "true"
       ELSE /\ readiness' = "false"
            /\ UNCHANGED button
    /\ UNCHANGED <<variant, googlePayClient, alerts, clicks, sheet, attempts,
                   googlePayBaseConfiguration,
                   loadedRequest, lastDataChanged>>
    /\ UNCHANGED tableVars
    /\ UNCHANGED shopVars

\* The .catch of isReadyToPay: console.error.
Shop_isReadyToPayCatch ==
    /\ variant = 1
    /\ readiness = "pending"
    /\ readiness' = "rejected"
    /\ UNCHANGED <<variant, googlePayClient, button, alerts, clicks, sheet,
                   attempts, googlePayBaseConfiguration,
                   loadedRequest, lastDataChanged>>
    /\ UNCHANGED tableVars
    /\ UNCHANGED shopVars

\* The request of the shop script: a new object, the price of the selected
\* shirt as a string, no shipping options and no callbacks.
Shop_paymentDataRequest ==
    [allowedPaymentMethods |-> googlePayBaseConfiguration.allowedPaymentMethods,
     transactionInfo |-> Str(selectedShirt.price),
     hasTransactionInfo |-> TRUE,
     shippingOptions |-> {},
     callbackIntents |-> {}]

\* onGooglePaymentsButtonClicked of the shop script.  Before a shirt is
\* selected, selectedShirt.price throws a TypeError and no sheet opens.
Shop_onGooglePaymentsButtonClicked ==
    /\ variant = 1
    /\ button
    /\ sheet = 0
    /\ clicks < MaxClicks
    /\ clicks' = clicks + 1
    /\ IF selectedShirt = NoShirt
       THEN UNCHANGED <<attempts, sheet, loadedRequest>>
       ELSE /\ attempts' = Append(attempts, NewAttempt)
            /\ loadedRequest' = Shop_paymentDataRequest
            /\ sheet' = Len(attempts) + 1
    /\ UNCHANGED <<variant, googlePayClient, readiness, button, alerts,
                   googlePayBaseConfiguration, lastDataChanged>>
    /\ UNCHANGED tableVars
    /\ UNCHANGED shopVars

\* The .then of loadPaymentData: window.location.hash = '#shop-success',
\* which queues a hashchange event when the hash was another one.
Shop_loadPaymentDataThen ==
    /\ variant = 1
    /\ sheet # 0
    /\ attempts' = [attempts EXCEPT ![sheet].status = "resolved"]
    /\ sheet' = 0
    /\ hash' = "#shop-success"
    /\ hashEvents' = IF hash # "#shop-success" THEN hashEvents + 1
                     ELSE hashEvents
    /\ UNCHANGED <<uiInitialized, display, checkoutClassName,
                   GLOBAL_RAM_CACHE, fetches, selectedShirt, lastDirectory>>
    /\ UNCHANGED <<variant, googlePayClient, readiness, button, alerts,
                   clicks, googlePayBaseConfiguration,
                   loadedRequest, lastDataChanged>>
    /\ UNCHANGED tableVars

\* The .catch of loadPaymentData: console.error.
Shop_loadPaymentDataCatch(statusCode) ==
    /\ variant = 1
    /\ sheet # 0
    /\ attempts' = [attempts EXCEPT ![sheet].status = statusCode]
    /\ sheet' = 0
    /\ UNCHANGED <<variant, googlePayClient, readiness, button, alerts,
                   clicks, googlePayBaseConfiguration,
                   loadedRequest, lastDataChanged>>
    /\ UNCHANGED tableVars
    /\ UNCHANGED shopVars

NextShop ==
    \/ initializeUi
    \/ \E h \in Hashes : Navigate(h)
    \/ hashchange
    \/ reloadButtonClick
    \/ \E shirtUrl \in Urls : fetchThen(shirtUrl)
    \/ \E shirtUrl \in Urls : fetchRejected(shirtUrl)
    \/ Shop_onGooglePayLoaded
    \/ \E result \in BOOLEAN : Shop_isReadyToPayThen(result)
    \/ Shop_isReadyToPayCatch
    \/ Shop_onGooglePaymentsButtonClicked
    \/ Shop_loadPaymentDataThen
    \/ \E statusCode \in {"CANCELED", "DEVELOPER_ERROR"} :
           Shop_loadPaymentDataCatch(statusCode)

----------------------------------------------------------------------------
(* Specifications. *)

InitShop == InitPayVars(1) /\ InitShopVars

InitPay == InitPayVars(2) /\ IdleShopVars

Init == InitShop \/ InitPay

Next == NextShop \/ NextPay

\* A page with either script.
Spec == Init /\ [][Next]_vars

\* The page with the pay script.  The event loop runs every timer callback
\* that is due, and time does not stop while a timer runs.
FairSpec ==
    /\ InitPay
    /\ [][NextPay]_vars
    /\ WF_vars(\E d \in {ProcessorDelay \div 2, ProcessorDelay} : Tick(d))
    /\ \A a \in 1..MaxClicks : WF_vars(processPaymentTimeout(a))

----------------------------------------------------------------------------
(* Properties of the pricing recompute (paymentDataCallback). *)

\* The last call of the callback named an id of the surcharge table.
ValidCall ==
    /\ lastDataChanged.called
    /\ lastDataChanged.payload.hasShippingOptionData
    /\ lastDataChanged.payload.id \in DOMAIN shippingSurcharges

\* The last call of the callback named an id the surcharge table lacks.
UnknownIdCall ==
    /\ lastDataChanged.called
    /\ lastDataChanged.payload.hasShippingOptionData
    /\ lastDataChanged.payload.id \notin DOMAIN shippingSurcharges

\* m mills rounded half-up to cents: the c with c - 1/2 <= m/10 < c + 1/2.
HalfUpCents(m) ==
    CHOOSE c \in 0..(m \div 10 + 1) : 10 * c - 5 <= m /\ m < 10 * c + 5

\* The price strings of a returned result: the total and the line items.
PricesOf(outcome) ==
    {outcome.totalPrice}
    \cup {outcome.displayItems[i].price : i \in 1..Len(outcome.displayItems)}

\* Some base totals a recompute could be asked about, in mills: 0, 1.00 and
\* the 123.45 of the script.
BaseTotals == {0, 1000, 123450}

\* C1, as stated: for every id of the surcharge table and every non-negative
\* base total, the callback returns the total base + surcharge[id], rounded
\* half-up to two decimals.
C1_AnyBaseTotal ==
    ValidCall =>
        \A base \in BaseTotals :
            /\ lastDataChanged.outcome.kind = "return"
            /\ lastDataChanged.outcome.totalPrice =
                   Str(HalfUpCents(
                       base + shippingSurcharges[lastDataChanged.payload.id]))

\* C1, amended: the callback takes no base total.  For every id of the
\* surcharge table it returns the total 123.45 + surcharge[id], rounded
\* half-up to two decimals, and 123.45 is the total price of the request
\* the sheet was opened with.
C1_FixedBaseTotal ==
    ValidCall =>
        /\ lastDataChanged.outcome.kind = "return"
        /\ ~loadedRequest.transactionInfo.nan
        /\ lastDataChanged.outcome.totalPrice =
               Str(HalfUpCents(
                   10 * loadedRequest.transactionInfo.cents
                   + shippingSurcharges[lastDataChanged.payload.id]))

\* The callback has answered for the expedited option: 123.45 + 3.99.
C1_Witness ==
    /\ ValidCall
    /\ lastDataChanged.payload.id = "shipping-002"
    /\ lastDataChanged.outcome.totalPrice = Str(12744)

\* C2: for every id of the surcharge table, the prices of the two returned
\* line items add up to the returned total price.
C2_ItemsSumToTotal ==
    ValidCall =>
        /\ lastDataChanged.outcome.kind = "return"
        /\ Len(lastDataChanged.outcome.displayItems) = 2
        /\ lastDataChanged.outcome.displayItems[1].price.cents
           + lastDataChanged.outcome.displayItems[2].price.cents
           = lastDataChanged.outcome.totalPrice.cents

\* C3: for an id the surcharge table lacks, the callback fails with an error
\* and returns nothing; and no result it returns has a total or a line-item
\* price that is NaN or negative.
C3_UnknownIdFails ==
    /\ UnknownIdCall =>
           /\ lastDataChanged.outcome.kind = "throw"
           /\ lastDataChanged.outcome.error = "TypeError"
    /\ (lastDataChanged.called /\ lastDataChanged.outcome.kind = "return") =>
           \A price \in PricesOf(lastDataChanged.outcome) :
               ~price.nan /\ price.cents >= 0

\* The sheet has named the option no table holds, and the callback threw.
C3_Witness ==
    /\ UnknownIdCall
    /\ lastDataChanged.payload.id = "shipping_option_unselected"
    /\ lastDataChanged.outcome.kind = "throw"

\* The two line items of a result are the Subtotal, priced as the total, and
\* the Shipping, priced as the surcharge.
TwoItems(outcome, id) ==
    /\ outcome.kind = "return"
    /\ Len(outcome.displayItems) = 2
    /\ outcome.displayItems[1].label = "Subtotal"
    /\ outcome.displayItems[1].price = outcome.totalPrice
    /\ outcome.displayItems[2].label = "Shipping"
    /\ outcome.displayItems[2].price = Str(HalfUpCents(shippingSurcharges[id]))

\* C4, as stated: exactly two line items, the Subtotal priced as the new
\* total and the Shipping priced as the surcharge, each with the status
\* FINAL.
C4_EachItemFinal ==
    ValidCall =>
        /\ TwoItems(lastDataChanged.outcome, lastDataChanged.payload.id)
        /\ \A i \in 1..2 :
               lastDataChanged.outcome.displayItems[i].status = "FINAL"

\* C4, amended: exactly two line items, the Subtotal priced as the new total
\* and the Shipping priced as the surcharge; the Shipping item has the
\* status FINAL, the Subtotal item has no status, and the total has the
\* price status FINAL.
C4_ShippingItemFinal ==
    ValidCall =>
        /\ TwoItems(lastDataChanged.outcome, lastDataChanged.payload.id)
        /\ lastDataChanged.outcome.displayItems[1].status = "absent"
        /\ lastDataChanged.outcome.displayItems[2].status = "FINAL"
        /\ lastDataChanged.outcome.totalPriceStatus = "FINAL"

\* The callback has answered for the express option: 133.45 and 10.00.
C4_Witness ==
    /\ ValidCall
    /\ lastDataChanged.payload.id = "shipping-003"
    /\ lastDataChanged.outcome.displayItems[1].price = Str(13345)
    /\ lastDataChanged.outcome.displayItems[2].price = Str(1000)

\* C5: every shipping option id offered to the sheet is a key of the
\* surcharge table, every surcharge is non-negative, and the options and
\* the table are in every state what the script defined them to be.
C5_TablesAgree ==
    /\ shippingOptionParameters \subseteq DOMAIN shippingSurcharges
    /\ loadedRequest.shippingOptions \subseteq DOMAIN shippingSurcharges
    /\ \A id \in DOMAIN shippingSurcharges : shippingSurcharges[id] >= 0
    /\ shippingOptionParameters = ShippingOptionIds
    /\ shippingSurcharges = ShippingSurchargeTable

\* A sheet is open that offers the three options.
C5_Witness ==
    /\ sheet # 0
    /\ loadedRequest.shippingOptions = ShippingOptionIds
    /\ ShippingOptionIds # {}

----------------------------------------------------------------------------
(* Properties of the payment session. *)

\* The state of the coordinator, read off the page: the sheet, the button,
\* the readiness check.
CoordinatorState ==
    IF sheet # 0 THEN "SheetOpen"
    ELSE IF button THEN "ButtonShown"
    ELSE IF readiness \in {"false", "rejected"} THEN "Failed"
    ELSE IF readiness = "pending" THEN "ReadinessChecked"
    ELSE "Idle"

\* A click on the Google Pay button, with either script.
ButtonClick ==
    onGooglePaymentsButtonClicked \/ Shop_onGooglePaymentsButtonClicked

Rejections == {"CANCELED", "DEVELOPER_ERROR"}

\* C6: once isReadyToPay has resolved with result false, there is no payment
\* button, a notice has been shown to the user, and neither the click
\* handler nor loadPaymentData has run.
C6_NotReadyNoButton ==
    readiness = "false" =>
        /\ ~button
        /\ \E i \in 1..Len(alerts) : alerts[i] = "Unable to pay with GPay"
        /\ clicks = 0
        /\ attempts = <<>>
        /\ sheet = 0

\* C7: an attempt whose loadPaymentData was rejected with CANCELED or
\* DEVELOPER_ERROR never has processPayment called or its timer set, and
\* leaves the button in the page; while it is the last attempt the sheet is
\* closed, the coordinator is in ButtonShown, and the button takes a click.
C7_RejectionReturnsToButton ==
    \A a \in 1..Len(attempts) :
        attempts[a].status \in Rejections =>
            /\ attempts[a].processCalls = 0
            /\ attempts[a].timer = 0 - 1
            /\ ~attempts[a].done
            /\ button
            /\ sheet # a
            /\ a = Len(attempts) =>
                   /\ CoordinatorState = "ButtonShown"
                   /\ clicks < MaxClicks => ENABLED ButtonClick

\* The user cancelled the first sheet and has opened a second one.
C7_Witness ==
    /\ Len(attempts) = 2
    /\ attempts[1].status = "CANCELED"
    /\ attempts[1].processCalls = 0
    /\ sheet = 2

\* C8: for every attempt the SDK reported success for, processPayment is
\* called exactly once (and for no other attempt); its timer, once set, is
\* never cleared and only runs down; its promise resolves only when the 800
\* ms have passed; and it does resolve.
C8_ProcessorCompletes ==
    /\ [](\A a \in 1..Len(attempts) :
             /\ attempts[a].processCalls =
                    IF attempts[a].status = "resolved" THEN 1 ELSE 0
             /\ attempts[a].status = "resolved" => attempts[a].timer >= 0
             /\ attempts[a].done => attempts[a].timer = 0)
    /\ [][\A a \in 1..Len(attempts) :
             attempts[a].timer >= 0 =>
                 /\ attempts'[a].timer >= 0
                 /\ attempts'[a].timer <= attempts[a].timer
                 /\ attempts[a].done => attempts'[a].done]_vars
    /\ \A a \in 1..MaxClicks :
           (Len(attempts) >= a /\ attempts[a].status = "resolved")
               ~> (Len(attempts) >= a /\ attempts[a].done)

\* The mock processor has answered for a successful attempt.
C8_Witness ==
    /\ Len(attempts) >= 1
    /\ attempts[1].status = "resolved"
    /\ attempts[1].processCalls = 1
    /\ attempts[1].done
    /\ \E i \in 1..Len(alerts) : alerts[i] = "done"

\* The view a hash selects: the product view unless the hash names the
\* checkout or the success view.
ViewOfHash(h) ==
    IF h = "#shop-checkout" THEN "shop-checkout"
    ELSE IF h = "#shop-success" THEN "shop-success"
    ELSE "shop-tshirt"

\* C9: once initializeUi has run, exactly one of the three views is shown
\* and the other two are hidden; and when every hash change has been handled
\* (no hashchange event is queued), the view shown is the one the current
\* hash selects.
C9_OneViewShown ==
    uiInitialized =>
        /\ Cardinality({v \in Views : display[v] = "flex"}) = 1
        /\ \A v \in Views : display[v] \in {"flex", "none"}
        /\ hashEvents = 0 => display[ViewOfHash(hash)] = "flex"

\* A payment has led from the checkout view to the success view.
C9_Witness ==
    /\ uiInitialized
    /\ hashEvents = 0
    /\ hash = "#shop-success"
    /\ checkoutClassName = "fa-loaded"
    /\ display["shop-success"] = "flex"
    /\ \E a \in 1..Len(attempts) : attempts[a].status = "resolved"

\* C10: every authorization event delivered to onPaymentAuthorized is
\* answered with a result whose transactionState is SUCCESS or FAILURE.
C10_AuthorizationAnswered ==
    \A a \in 1..Len(attempts) :
        attempts[a].authorized =>
            TransactionStateOf(attempts[a].authReply) \in {"SUCCESS", "FAILURE"}

----------------------------------------------------------------------------
(* Properties of the shirt directories and their cache. *)

\* The shirts of a list.
ShirtsOf(list) == {list[i] : i \in 1..Len(list)}

\* A step that calls loadShirtDirectory: a handler that loads the view of a
\* hash that selects the product view.
LoadShirtDirectoryCall ==
    /\ initializeUi \/ (uiInitialized /\ hashchange) \/ reloadButtonClick
    /\ hash \notin {"#shop-checkout", "#shop-success"}

----------------------------------------------------------------------------
(* Properties of what causes a loadPaymentData call. *)

\* A step in which loadPaymentData is called: an attempt is added.
LoadPaymentDataCalled == Len(attempts') > Len(attempts)

\* A step in which the promise of loadPaymentData is rejected with CANCELED
\* or DEVELOPER_ERROR.
RejectionStep ==
    \E a \in 1..Len(attempts) :
        /\ attempts[a].status \notin Rejections
        /\ Len(attempts') >= a
        /\ attempts'[a].status \in Rejections

\* C12: the button exists only after isReadyToPay resolved with result true;
\* there are never more loadPaymentData calls than clicks (with the pay
\* script as many); a step that calls loadPaymentData is a click on the
\* existing button that makes one call; and the step that rejects an attempt
\* with CANCELED or DEVELOPER_ERROR closes the sheet and makes no call.
C12_ClickCausesLoad ==
    /\ [](/\ button => readiness = "true"
          /\ Len(attempts) <= clicks
          /\ variant = 2 => Len(attempts) = clicks)
    /\ [][/\ Len(attempts') >= Len(attempts)
          /\ LoadPaymentDataCalled =>
                 /\ ButtonClick
                 /\ button
                 /\ clicks' = clicks + 1
                 /\ Len(attempts') = Len(attempts) + 1
                 /\ sheet' = Len(attempts')
          /\ RejectionStep =>
                 /\ ~LoadPaymentDataCalled
                 /\ clicks' = clicks
                 /\ sheet' = 0
         ]_vars

\* The only attempt was rejected with DEVELOPER_ERROR; no sheet has opened
\* since.
C12_Witness ==
    /\ button
    /\ clicks = 1
    /\ Len(attempts) = 1
    /\ attempts[1].status = "DEVELOPER_ERROR"
    /\ sheet = 0

----------------------------------------------------------------------------
(* The selected shirt and the directory asked for last. *)

\* C13: when no directory fetch is pending and the directory that the most
\* recent loadShirtDirectory call asked for has been delivered (its cache
\* entry is populated, so the call was served from the cache or a fetch of
\* that directory succeeded), the selected shirt is a shirt of that directory.
C13_SelectedFromLastDirectory ==
    (/\ InFlight = 0
     /\ lastDirectory # "none"
     /\ GLOBAL_RAM_CACHE[lastDirectory] # <<>>) =>
        selectedShirt \in ShirtsOf(Directory(lastDirectory))

====
